---- MODULE Spec2Model ----
\* Ingest-to-order pipeline (backend/services/order_orchestrator.py) and the
\* reviewer actions on committed orders (backend/routers/orders.py).
\*
\* The database is modelled as its committed state (the db_ variables).  A
\* pipeline run owns one SQLAlchemy session: the Python objects it built (the
\* fields of run[r]) and the set of those objects that are attached to the
\* session (run[r].in_session).  flush() sends INSERTs inside the open
\* transaction, commit() makes the attached objects' rows visible, rollback()
\* discards the transaction and expunges every object that was added during it
\* (they become transient; their attributes are kept).
EXTENDS Integers, Sequences, FiniteSets, TLC

(***************************************************************************)
(* Bounds                                                                  *)
(***************************************************************************)
MaxLines == 2
MaxSessions == 2

\* One call of the pipeline is followed from start to end; calls share nothing
\* but the database, where each writes rows of its own.
Runs == {1}
Sessions == 1..MaxSessions

(***************************************************************************)
(* Program constants and enumerations                                      *)
(***************************************************************************)
MAX_REASONABLE_QUANTITY == 10000

PENDING == "PENDING"
PROCESSED == "PROCESSED"
FAILED == "FAILED"
InteractionStatus == {PENDING, PROCESSED, FAILED}

DRAFT == "DRAFT"
FLAGGED == "FLAGGED"
CONFIRMED == "CONFIRMED"
SYNCED == "SYNCED"
OrderStatus == {DRAFT, FLAGGED, CONFIRMED, SYNCED}

SafetyModes == {"off", "log", "strict"}

Tenants == {"t1", "t2"}
Customers == {"c1"}

\* Catalog rows: Product.sku is unique over the whole table, each row has a tenant.
CatalogSkus == {"A", "Z", "X"}
InitialProducts == [s \in CatalogSkus |->
                      CASE s = "A" -> [tenant_id |-> "t1", price |-> 5]
                        [] s = "Z" -> [tenant_id |-> "t1", price |-> 0]
                        [] s = "X" -> [tenant_id |-> "t2", price |-> 3]]

\* SKU strings the extraction model may return ("U" is in nobody's catalog).
ExtractedSkus == CatalogSkus \cup {"U"}

\* A JSON value in the "qty" field: a number (kept as twice its value, so that
\* halves are representable) or a non-numeric string.
NumQty(twice) == [tag |-> "num", twice |-> twice]
TextQty == [tag |-> "text", twice |-> 0]
RawQtys == {NumQty(-3), NumQty(20000), NumQty(20003), TextQty}

RawItems == [sku : ExtractedSkus, qty : RawQtys]

SeqsUpTo(S, n) == UNION {[1..k -> S] : k \in 0..n}
\* The loop over the list stops at the first qty that int() rejects, so such a
\* line is drawn as the last line of its list only.
ExtractedLists ==
    {l \in SeqsUpTo(RawItems, MaxLines) : \A i \in 1..(Len(l) - 1) : l[i].qty # TextQty}

\* fn is the call in progress when one function of the program is followed on
\* its own (its arguments, then its outcome); it is idle in the other
\* specifications.
VARIABLES settings, products,
          db_interactions, db_logs, db_orders, db_items, db_anomalies,
          run, rev, fn

vars == <<settings, products, db_interactions, db_logs, db_orders, db_items,
          db_anomalies, run, rev, fn>>

db == <<db_interactions, db_logs, db_orders, db_items, db_anomalies>>

\* Optional values (a Python None) are sequences of length 0 or 1.
None == <<>>
Some(v) == <<v>>
IsNone(o) == Len(o) = 0
Get(o) == o[1]

\* Insert-or-update of one row in a table keyed by primary key.
Upsert(table, key, row) ==
    [k \in DOMAIN table \cup {key} |-> IF k = key THEN row ELSE table[k]]

(***************************************************************************)
(* Pure helpers of the pipeline                                            *)
(***************************************************************************)
\* int(raw["qty"]): truncation toward zero for a number, ValueError for text.
IntRaises(q) == q.tag = "text"

PyInt(q) == IF q.twice >= 0 THEN q.twice \div 2 ELSE -((-q.twice) \div 2)

\* line_total = unit_price * qty
LineTotalNoQty(unit_price, qty) == unit_price

LineTotal(unit_price, qty) == unit_price * qty

\* select(Product).where(tenant_id == tenant, sku.in_(skus)) -> {p.sku: p}
SkusOf(extracted) == {extracted[i].sku : i \in 1..Len(extracted)}

ProductMapAnyTenant(tenant, extracted, prods) ==
    [s \in ExtractedSkus |->
        IF s \in DOMAIN prods /\ s \in SkusOf(extracted)
        THEN Some([id |-> s, tenant_id |-> prods[s].tenant_id, price |-> prods[s].price])
        ELSE None]

ProductMap(tenant, extracted, prods) ==
    [s \in ExtractedSkus |->
        IF s \in DOMAIN prods /\ prods[s].tenant_id = tenant /\ s \in SkusOf(extracted)
        THEN Some([id |-> s, tenant_id |-> prods[s].tenant_id, price |-> prods[s].price])
        ELSE None]

\* The for-loop over extracted_items: unresolved lines are skipped, a resolved
\* line whose qty is not a number raises, every other resolved line adds one
\* OrderItem and its line total.
RECURSIVE BuildOrderItems(_, _, _)
BuildOrderItems(order_id, extracted, product_map) ==
    IF extracted = <<>> THEN [raised |-> FALSE, items |-> <<>>, total |-> 0]
    ELSE LET raw == Head(extracted)
             product == product_map[raw.sku]
             rest == BuildOrderItems(order_id, Tail(extracted), product_map)
         IN IF IsNone(product) THEN rest
            ELSE IF IntRaises(raw.qty) \/ rest.raised
                 THEN [raised |-> TRUE, items |-> <<>>, total |-> 0]
                 ELSE LET qty == PyInt(raw.qty)
                          unit_price == Get(product).price
                          oi == [order_id |-> order_id, product_id |-> Get(product).id,
                                 quantity |-> qty, unit_price |-> Some(unit_price)]
                      IN [raised |-> FALSE,
                          items |-> <<oi>> \o rest.items,
                          total |-> LineTotal(unit_price, qty) + rest.total]

(***************************************************************************)
(* services/anomaly_service.py                                             *)
(***************************************************************************)
SEVERITY_UNUSUAL_VOLUME == 800
SEVERITY_ZERO_PRICE == 650

\* Anomaly(order_id, rule_code, description, severity_score, is_resolved=False);
\* the description is kept as the values its f-string formats.
NewAnomaly(order_id, rule_code, description, severity) ==
    [order_id |-> order_id, rule_code |-> rule_code, description |-> description,
     severity_score |-> severity, is_resolved |-> FALSE]

\* Rule 1: item.quantity > MAX_REASONABLE_QUANTITY
UnusualVolumeAtThreshold(item) == item.quantity >= MAX_REASONABLE_QUANTITY

UnusualVolume(item) == item.quantity > MAX_REASONABLE_QUANTITY

\* Rule 2: item.unit_price is None or item.unit_price <= 0
ZeroPrice(item) == IsNone(item.unit_price) \/ Get(item.unit_price) <= 0

VolumeAnomaly(order_id, item) ==
    NewAnomaly(order_id, "UNUSUAL_VOLUME",
               [quantity |-> item.quantity, product_id |-> item.product_id,
                threshold |-> MAX_REASONABLE_QUANTITY],
               SEVERITY_UNUSUAL_VOLUME)

PriceAnomaly(order_id, item) ==
    NewAnomaly(order_id, "ZERO_PRICE",
               [unit_price |-> item.unit_price, product_id |-> item.product_id],
               SEVERITY_ZERO_PRICE)

\* One pass of the loop body: rule 1 is tested and appended before rule 2.
ItemAnomaliesPriceFirst(order_id, item) ==
    (IF ZeroPrice(item) THEN <<PriceAnomaly(order_id, item)>> ELSE <<>>)
    \o (IF UnusualVolume(item) THEN <<VolumeAnomaly(order_id, item)>> ELSE <<>>)

ItemAnomalies(order_id, item) ==
    (IF UnusualVolume(item) THEN <<VolumeAnomaly(order_id, item)>> ELSE <<>>)
    \o (IF ZeroPrice(item) THEN <<PriceAnomaly(order_id, item)>> ELSE <<>>)

RECURSIVE detect_anomalies(_, _)
detect_anomalies(order_id, order_items) ==
    IF order_items = <<>> THEN <<>>
    ELSE ItemAnomalies(order_id, Head(order_items))
         \o detect_anomalies(order_id, Tail(order_items))

\* order.status after "if anomalies: order.status = FLAGGED"
StatusAlwaysDraft(anomalies) == DRAFT

StatusAfterDetection(anomalies) == IF anomalies # <<>> THEN FLAGGED ELSE DRAFT

(***************************************************************************)
(* services/ai_service.py                                                  *)
(***************************************************************************)
FileKinds == {"remote", "local", "missing"}
DownloadOutcomes == {"ok", "http_error"}
ProviderOutcomes == {"text", "empty", "error"}
TRANSCRIPT == "transcript"

\* tmp.write(resp.content); tmp.close() on the new temporary file
WriteOutcomes == {"ok", "os_error"}

Raise(exc, msg) == [raised |-> TRUE, exc |-> exc, msg |-> msg, value |-> ""]
Return(v) == [raised |-> FALSE, exc |-> "none", msg |-> "", value |-> v]

\* Resolving file_url to a local path.  tmp_created: NamedTemporaryFile made
\* the file (delete=False); tmp_path: the assignment tmp_path = tmp.name, which
\* comes after write and close, was reached.
ResolveFile(kind, dl, wr) ==
    IF kind = "remote"
    THEN IF dl # "ok"
         THEN [res |-> Raise("HTTPError", "download failed"),
               tmp_created |-> FALSE, tmp_path |-> FALSE]
         ELSE IF wr # "ok"
              THEN [res |-> Raise("OSError", "write failed"),
                    tmp_created |-> TRUE, tmp_path |-> FALSE]
              ELSE [res |-> Return("local_path"), tmp_created |-> TRUE, tmp_path |-> TRUE]
    ELSE IF kind = "missing"
         THEN [res |-> Raise("TranscriptionError", "Local audio file not found"),
               tmp_created |-> FALSE, tmp_path |-> FALSE]
         ELSE [res |-> Return("local_path"), tmp_created |-> FALSE, tmp_path |-> FALSE]

\* str(exc) of what _transcribe_elevenlabs / _transcribe_whisper raised
ElevenLabsReason(el) ==
    IF el = "empty" THEN "ElevenLabs returned empty transcript" ELSE "elevenlabs request failed"

WhisperReason(wh) ==
    IF wh = "empty" THEN "Whisper returned empty transcript" ELSE "whisper request failed"

\* Whisper is reached when ElevenLabs did not return, and called when its key is set.
WhisperCalledAlways(el_returned, cfg) == cfg.OPENAI_API_KEY

WhisperCalled(el_returned, cfg) == ~el_returned /\ cfg.OPENAI_API_KEY

\* parts: one entry per failed provider, or the no-keys entry
FailurePartsFirstOnly(el_error, wh_error, cfg) ==
    IF ~IsNone(el_error) THEN <<"ElevenLabs: " \o Get(el_error)>>
    ELSE IF ~IsNone(wh_error) THEN <<"Whisper: " \o Get(wh_error)>>
    ELSE <<"No transcription API keys configured">>

FailureParts(el_error, wh_error, cfg) ==
    (IF ~IsNone(el_error) THEN <<"ElevenLabs: " \o Get(el_error)>> ELSE <<>>)
    \o (IF ~IsNone(wh_error) THEN <<"Whisper: " \o Get(wh_error)>> ELSE <<>>)
    \o (IF ~cfg.ELEVENLABS_API_KEY /\ ~cfg.OPENAI_API_KEY
        THEN <<"No transcription API keys configured">> ELSE <<>>)

\* "; ".join(parts)
RECURSIVE Join(_)
Join(parts) ==
    IF parts = <<>> THEN ""
    ELSE IF Len(parts) = 1 THEN parts[1]
    ELSE parts[1] \o "; " \o Join(Tail(parts))

\* The provider stage: ElevenLabs when its key is set, then Whisper; calls is
\* the sequence of provider requests made.
CallProviders(el, wh, cfg) ==
    LET el_called == cfg.ELEVENLABS_API_KEY
        el_returned == el_called /\ el = "text"
        wh_called == WhisperCalled(el_returned, cfg)
        wh_returned == wh_called /\ wh = "text"
        el_error == IF el_called /\ ~el_returned THEN Some(ElevenLabsReason(el)) ELSE None
        wh_error == IF wh_called /\ ~wh_returned THEN Some(WhisperReason(wh)) ELSE None
    IN [calls |-> (IF el_called THEN <<"elevenlabs">> ELSE <<>>)
                  \o (IF wh_called THEN <<"whisper">> ELSE <<>>),
        res |-> IF el_returned \/ wh_returned THEN Return(TRANSCRIPT)
                ELSE Raise("TranscriptionError",
                           "All transcription providers failed. "
                           \o Join(FailureParts(el_error, wh_error, cfg)))]

\* transcribe_audio: the outcome, the provider requests made, and whether the
\* temporary file is on disk after the finally block (it is unlinked only when
\* tmp_path is not None).
transcribe_audio(kind, dl, wr, el, wh, cfg) ==
    LET file == ResolveFile(kind, dl, wr)
        stage == IF file.res.raised THEN [calls |-> <<>>, res |-> file.res]
                 ELSE CallProviders(el, wh, cfg)
    IN [raised |-> stage.res.raised, exc |-> stage.res.exc, msg |-> stage.res.msg,
        value |-> stage.res.value, calls |-> stage.calls,
        tmp_created |-> file.tmp_created,
        tmp_exists |-> file.tmp_created /\ ~file.tmp_path]

\* verify_content_safety returns the provider's JSON body or raises.
Decisions == {"allow", "block", "flag"}
ABSENT == "<absent>"
Reasons == {"policy-7", ABSENT}
Verdicts == {v \in [decision : Decisions, reason : Reasons] :
                \/ v.decision = "block"
                \/ v.decision = "flag" /\ v.reason # ABSENT
                \/ v.decision = "allow" /\ v.reason = ABSENT}
DEFAULT_REASON == "unsafe content detected"

\* safety_result.get("reason", "unsafe content detected")
BlockReason(verdict) == IF verdict.reason = ABSENT THEN DEFAULT_REASON ELSE verdict.reason

\* safety_mode == "strict" and is_unsafe
BlocksNever(mode, verdict) == FALSE

BlocksInAnyMode(mode, verdict) == verdict.decision = "block"

BlocksUnlessAllowed(mode, verdict) == mode = "strict" /\ verdict.decision # "allow"

Blocks(mode, verdict) == mode = "strict" /\ verdict.decision = "block"

\* The safety provider is called unless the mode is off or the key is missing.
SafetyEnabledByModeOnly(cfg) == cfg.SAFETY_MODE # "off"

SafetyEnabled(cfg) == cfg.SAFETY_MODE # "off" /\ cfg.WHITE_CIRCLE_API_KEY

\* extract_order_data: the model's reply is parsed with json.loads as it is.
\* A reply is the JSON text of an item list, possibly wrapped in markdown fences,
\* or text that is not JSON at all.
Replies == [fenced : BOOLEAN, json : BOOLEAN, items : ExtractedLists]

JsonLoadsRaises(reply) == reply.fenced \/ ~reply.json

\* extract_order_data: the API call, then json.loads(raw_text); whatever either
\* raises leaves the function as it is.
extract_order_data(api_ok, reply) ==
    IF ~api_ok THEN Raise("APIError", "extraction")
    ELSE IF JsonLoadsRaises(reply) THEN Raise("JSONDecodeError", "extraction")
    ELSE Return(reply.items)

(***************************************************************************)
(* State of one pipeline run (one call of process_incoming_interaction)    *)
(***************************************************************************)
IdleRun ==
    [pc |-> "idle", tenant_id |-> "t1", customer_id |-> "c1",
     interaction |-> None, transcript |-> "", safety_verdict |-> None,
     extracted_items |-> <<>>, analysis_log |-> None,
     product_map |-> [s \in ExtractedSkus |-> None],
     order |-> None, order_item_objects |-> <<>>, anomalies |-> <<>>,
     in_session |-> {}, exc |-> "none", exc_msg |-> "", result |-> None,
     flushed |-> FALSE, n_transcribe |-> 0, n_safety |-> 0, n_extract |-> 0,
     committed |-> FALSE, swallowed |-> FALSE, response |-> None]

SettingsSpace == [SAFETY_MODE : SafetyModes, WHITE_CIRCLE_API_KEY : BOOLEAN,
                  ELEVENLABS_API_KEY : BOOLEAN, OPENAI_API_KEY : BOOLEAN]

\* State of one reviewer request (its own session and transaction).
IdleSession == [pc |-> "idle", op |-> "none", tenant_id |-> "t1", order_id |-> 1,
                anomaly_id |-> <<1, 1>>, order |-> None, anomaly |-> None,
                loaded_status |-> "none", response |-> "none", pre_unresolved |-> {}]

EmptyTable == <<>>

IdleFn == [pc |-> "idle"]

Init ==
    /\ settings \in SettingsSpace
    /\ products = InitialProducts
    /\ db_interactions = EmptyTable
    /\ db_logs = EmptyTable
    /\ db_orders = EmptyTable
    /\ db_items = EmptyTable
    /\ db_anomalies = EmptyTable
    /\ run = [r \in Runs |-> IdleRun]
    /\ rev = [t \in Sessions |-> IdleSession]
    /\ fn = IdleFn

\* session.rollback(): the open transaction is discarded and every object added
\* during it is expunged from the session.
RollbackKeepsSession(rr) == rr.in_session

Rollback(rr) == {}

\* The except blocks: entered with the exception in flight.
Fail(rr, exc, msg) == [rr EXCEPT !.pc = "except", !.exc = exc, !.exc_msg = msg]

\* Rows that session.commit() makes visible: one per object attached to the session.
AnomalyIds(rr) == {<<Get(rr.order).id, i>> : i \in 1..Len(rr.anomalies)}

CommitInteractions(table, rr) ==
    IF "interaction" \in rr.in_session
    THEN Upsert(table, Get(rr.interaction).id, Get(rr.interaction))
    ELSE table

CommitLogs(table, rr) ==
    IF "analysis_log" \in rr.in_session
    THEN Upsert(table, Get(rr.analysis_log).interaction_id, Get(rr.analysis_log))
    ELSE table

CommitOrders(table, rr) ==
    IF "order" \in rr.in_session
    THEN Upsert(table, Get(rr.order).id, Get(rr.order))
    ELSE table

CommitItems(table, rr) ==
    IF "order_items" \in rr.in_session
    THEN Upsert(table, Get(rr.order).id, rr.order_item_objects)
    ELSE table

CommitAnomalies(table, rr) ==
    IF "anomalies" \in rr.in_session
    THEN [k \in DOMAIN table \cup AnomalyIds(rr) |->
             IF k \in AnomalyIds(rr) THEN rr.anomalies[k[2]] ELSE table[k]]
    ELSE table

Commit(rr) ==
    /\ db_interactions' = CommitInteractions(db_interactions, rr)
    /\ db_logs' = CommitLogs(db_logs, rr)
    /\ db_orders' = CommitOrders(db_orders, rr)
    /\ db_items' = CommitItems(db_items, rr)
    /\ db_anomalies' = CommitAnomalies(db_anomalies, rr)

(***************************************************************************)
(* process_incoming_interaction: what each stretch of code between two      *)
(* await points does to the run's objects                                  *)
(***************************************************************************)
\* the call's arguments
Called(rr, tenant, customer) ==
    [rr EXCEPT !.pc = "create", !.tenant_id = tenant, !.customer_id = customer]

\* 1. Interaction(status=PENDING), session.add, flush
Created(rr, id) ==
    [rr EXCEPT !.pc = "transcribe",
               !.interaction = Some([id |-> id, tenant_id |-> rr.tenant_id,
                                     customer_id |-> rr.customer_id, status |-> PENDING]),
               !.in_session = {"interaction"}, !.flushed = TRUE]

\* 2. the transcript returned by transcribe_audio
TranscribedSkipsSafety(rr, text) == [rr EXCEPT !.pc = "extract", !.transcript = text]

Transcribed(rr, text) == [rr EXCEPT !.pc = "safety", !.transcript = text]

\* 2. transcribe_audio returned or raised
AfterTranscribe(rr, res) ==
    LET called == [rr EXCEPT !.n_transcribe = @ + 1]
    IN IF res.raised THEN Fail(called, res.exc, res.msg) ELSE Transcribed(called, res.value)

\* 2b. verify_content_safety raised (raise_for_status, connection error): the
\* orchestrator has no handler around the call, whatever the mode.
SafetyFailedOpenInLog(rr, mode) ==
    IF mode = "log"
    THEN [rr EXCEPT !.n_safety = @ + 1, !.pc = "extract"]
    ELSE Fail([rr EXCEPT !.n_safety = @ + 1], "HTTPError", "safety provider")

SafetyFailed(rr, mode) ==
    Fail([rr EXCEPT !.n_safety = @ + 1], "HTTPError", "safety provider")

\* 2b. the verdict returned by verify_content_safety
Verified(rr, v) == [rr EXCEPT !.n_safety = @ + 1, !.safety_verdict = Some(v)]

\* 3.-4. extracted_items returned; AIAnalysisLog built and added to the session
Extracted(rr, items) ==
    [rr EXCEPT !.pc = "lookup", !.n_extract = @ + 1,
               !.extracted_items = items,
               !.analysis_log = Some([interaction_id |-> Get(rr.interaction).id,
                                      transcript_text |-> rr.transcript,
                                      extracted_items |-> items,
                                      safety_verdict |-> rr.safety_verdict]),
               !.in_session = @ \cup {"analysis_log"}]

\* 3. extract_order_data returned or raised
AfterExtract(rr, res) ==
    IF res.raised THEN Fail([rr EXCEPT !.n_extract = @ + 1], res.exc, res.msg)
    ELSE Extracted(rr, res.value)

\* 5. product_map from the bulk select; Order(status=DRAFT, total 0) added
LookedUp(rr, id, prods) ==
    [rr EXCEPT !.pc = "build",
               !.product_map = ProductMap(rr.tenant_id, rr.extracted_items, prods),
               !.order = Some([id |-> id, tenant_id |-> rr.tenant_id,
                               customer_id |-> rr.customer_id,
                               interaction_id |-> Get(rr.interaction).id,
                               status |-> DRAFT, total_amount |-> 0]),
               !.in_session = @ \cup {"order"}]

\* 5.-7. the item loop, order.total_amount, detect_anomalies, order.status,
\* interaction.status = PROCESSED
BuiltItemsRequeries(rr) ==
    BuildOrderItems(Get(rr.order).id, rr.extracted_items,
                    ProductMap(rr.tenant_id, rr.extracted_items, products))

BuiltItems(rr) == BuildOrderItems(Get(rr.order).id, rr.extracted_items, rr.product_map)

BuiltLeavesPending(rr) ==
    LET built == BuiltItems(rr)
        anomalies == detect_anomalies(Get(rr.order).id, built.items)
    IN [rr EXCEPT !.pc = "commit",
                  !.order_item_objects = built.items,
                  !.anomalies = anomalies,
                  !.order = Some([Get(@) EXCEPT !.total_amount = built.total,
                                                !.status = StatusAfterDetection(anomalies)]),
                  !.in_session = @ \cup {"order_items"} \cup
                                   (IF anomalies # <<>> THEN {"anomalies"} ELSE {})]

Built(rr) ==
    LET built == BuiltItems(rr)
        anomalies == detect_anomalies(Get(rr.order).id, built.items)
    IN [rr EXCEPT !.pc = "commit",
                  !.order_item_objects = built.items,
                  !.anomalies = anomalies,
                  !.order = Some([Get(@) EXCEPT !.total_amount = built.total,
                                                !.status = StatusAfterDetection(anomalies)]),
                  !.interaction = Some([Get(@) EXCEPT !.status = PROCESSED]),
                  !.in_session = @ \cup {"order_items"} \cup
                                   (IF anomalies # <<>> THEN {"anomalies"} ELSE {})]

\* the summary dict returned after the final commit
ReturnedCountsItems(rr) ==
    [rr EXCEPT !.pc = "returned", !.committed = TRUE,
               !.response = Some([status |-> 201, detail |-> "created"]),
               !.result = Some([interaction_id |-> Get(rr.interaction).id,
                                order_id |-> Get(rr.order).id,
                                status |-> Get(rr.order).status,
                                anomalies_detected |-> Len(rr.order_item_objects)])]

Returned(rr) ==
    [rr EXCEPT !.pc = "returned", !.committed = TRUE,
               !.response = Some([status |-> 201, detail |-> "created"]),
               !.result = Some([interaction_id |-> Get(rr.interaction).id,
                                order_id |-> Get(rr.order).id,
                                status |-> Get(rr.order).status,
                                anomalies_detected |-> Len(rr.anomalies)])]

\* except: rollback, then interaction.status = FAILED on the Python object
RolledBackStays(rr) ==
    [rr EXCEPT !.in_session = Rollback(rr),
               !.interaction = IF IsNone(@) THEN @
                               ELSE Some([Get(@) EXCEPT !.status = FAILED])]

RolledBack(rr) ==
    [rr EXCEPT !.pc = "mark_failed",
               !.in_session = Rollback(rr),
               !.interaction = IF IsNone(@) THEN @
                               ELSE Some([Get(@) EXCEPT !.status = FAILED])]

\* routers/interactions.py, the except clauses around the orchestrator call:
\* ContentSafetyError -> 422, any other exception -> 500 with a fixed detail.
EndpointErrorEchoes(exc, msg) ==
    IF exc = "ContentSafetyError"
    THEN [status |-> 422, detail |-> "Content rejected by safety policy"]
    ELSE [status |-> 500, detail |-> msg]

EndpointError(exc, msg) ==
    IF exc = "ContentSafetyError"
    THEN [status |-> 422, detail |-> "Content rejected by safety policy"]
    ELSE [status |-> 500, detail |-> "Internal server error"]

\* except: the FAILED-marking commit returned, or raised and was swallowed by the
\* inner "except Exception: await session.rollback()"; then the bare raise, and
\* the endpoint's answer to it.
HandlerRaisedCommitError(rr, commit_failed) ==
    LET exc == IF commit_failed THEN "DBError" ELSE rr.exc
    IN [rr EXCEPT !.pc = "raised", !.in_session = {}, !.swallowed = commit_failed,
                  !.exc = exc,
                  !.response = Some(EndpointError(exc, rr.exc_msg))]

HandlerRaised(rr, commit_failed) ==
    [rr EXCEPT !.pc = "raised", !.in_session = {}, !.swallowed = commit_failed,
               !.response = Some(EndpointError(rr.exc, rr.exc_msg))]

(***************************************************************************)
(* process_incoming_interaction, one action per await point                *)
(***************************************************************************)
\* The endpoint calls the orchestrator.
Call(r) ==
    /\ run[r].pc = "idle"
    /\ \E t \in Tenants, c \in Customers :
          run' = [run EXCEPT ![r] = Called(@, t, c)]
    /\ UNCHANGED <<fn, settings, products, db, rev>>

\* 1. session.add(interaction); await session.flush()
CreateInteraction(r) ==
    /\ run[r].pc = "create"
    /\ \/ run' = [run EXCEPT ![r] = Created(@, r)]
       \/ run' = [run EXCEPT ![r] = Fail(@, "DBError", "flush")]
    /\ UNCHANGED <<fn, settings, products, db, rev>>

\* 2. transcript = await self.ai.transcribe_audio(file_url)
Transcribe(r) ==
    /\ run[r].pc = "transcribe"
    /\ \E kind \in FileKinds, dl \in DownloadOutcomes, wr \in WriteOutcomes,
          el \in ProviderOutcomes, wh \in ProviderOutcomes :
          run' = [run EXCEPT ![r] =
                     AfterTranscribe(@, transcribe_audio(kind, dl, wr, el, wh, settings))]
    /\ UNCHANGED <<fn, settings, products, db, rev>>

\* 2b. safety gate skipped: mode off, or no White Circle key
SafetySkipped(r) ==
    /\ run[r].pc = "safety"
    /\ ~SafetyEnabled(settings)
    /\ run' = [run EXCEPT ![r] = [@ EXCEPT !.pc = "extract"]]
    /\ UNCHANGED <<fn, settings, products, db, rev>>

\* 2b. await self.ai.verify_content_safety(transcript) raised
SafetyProviderFails(r) ==
    /\ run[r].pc = "safety"
    /\ SafetyEnabled(settings)
    /\ run' = [run EXCEPT ![r] = SafetyFailed(@, settings.SAFETY_MODE)]
    /\ UNCHANGED <<fn, settings, products, db, rev>>

\* 2b. the provider answered: strict mode raises ContentSafetyError on block
SafetyCheck(r) ==
    /\ run[r].pc = "safety"
    /\ SafetyEnabled(settings)
    /\ \E v \in Verdicts :
          run' = [run EXCEPT ![r] =
                IF Blocks(settings.SAFETY_MODE, v)
                THEN Fail(Verified(@, v), "ContentSafetyError", BlockReason(v))
                ELSE [Verified(@, v) EXCEPT !.pc = "extract"]]
    /\ UNCHANGED <<fn, settings, products, db, rev>>

\* 3. extract_order_data raised: the API call failed or json.loads failed
ExtractFails(r) ==
    /\ run[r].pc = "extract"
    /\ \E api_ok \in BOOLEAN, reply \in {rep \in Replies : rep.items = <<>>} :
          /\ extract_order_data(api_ok, reply).raised
          /\ run' = [run EXCEPT ![r] = AfterExtract(@, extract_order_data(api_ok, reply))]
    /\ UNCHANGED <<fn, settings, products, db, rev>>

\* 3.-4. extract_order_data returned the parsed list
Extract(r) ==
    /\ run[r].pc = "extract"
    /\ \E reply \in Replies :
          /\ ~extract_order_data(TRUE, reply).raised
          /\ run' = [run EXCEPT ![r] = AfterExtract(@, extract_order_data(TRUE, reply))]
    /\ UNCHANGED <<fn, settings, products, db, rev>>

\* 5. await session.execute(select(Product)...)
Lookup(r) ==
    /\ run[r].pc = "lookup"
    /\ \/ run' = [run EXCEPT ![r] = LookedUp(@, r, products)]
       \/ run' = [run EXCEPT ![r] = Fail(@, "DBError", "select")]
    /\ UNCHANGED <<fn, settings, products, db, rev>>

\* 5.-7. await session.flush(), then the synchronous code up to the commit
BuildOrder(r) ==
    /\ run[r].pc = "build"
    /\ \/ run' = [run EXCEPT ![r] = Fail(@, "DBError", "flush")]
       \/ run' = [run EXCEPT ![r] =
                     IF BuiltItems(@).raised THEN Fail(@, "ValueError", "int()")
                     ELSE Built(@)]
    /\ UNCHANGED <<fn, settings, products, db, rev>>

\* await session.commit() succeeded; the summary is returned
FinalCommit(r) ==
    /\ run[r].pc = "commit"
    /\ Commit(run[r])
    /\ run' = [run EXCEPT ![r] = Returned(@)]
    /\ UNCHANGED <<fn, settings, products, rev>>

\* await session.commit() raised
FinalCommitFails(r) ==
    /\ run[r].pc = "commit"
    /\ run' = [run EXCEPT ![r] = Fail(@, "DBError", "commit")]
    /\ UNCHANGED <<fn, settings, products, db, rev>>

\* except ...: await session.rollback()
HandlerRollback(r) ==
    /\ run[r].pc = "except"
    /\ run' = [run EXCEPT ![r] = RolledBack(@)]
    /\ UNCHANGED <<fn, settings, products, db, rev>>

\* try: await session.commit() except Exception: await session.rollback(); raise
HandlerCommit(r) ==
    /\ run[r].pc = "mark_failed"
    /\ \/ /\ Commit(run[r])
          /\ run' = [run EXCEPT ![r] = HandlerRaised(@, FALSE)]
       \/ /\ ~IsNone(run[r].interaction)
          /\ UNCHANGED db
          /\ run' = [run EXCEPT ![r] = HandlerRaised(@, TRUE)]
    /\ UNCHANGED <<fn, settings, products, rev>>

PipelineStep(r) ==
    \/ Call(r)
    \/ CreateInteraction(r)
    \/ Transcribe(r)
    \/ SafetySkipped(r)
    \/ SafetyProviderFails(r)
    \/ SafetyCheck(r)
    \/ ExtractFails(r)
    \/ Extract(r)
    \/ Lookup(r)
    \/ BuildOrder(r)
    \/ FinalCommit(r)
    \/ FinalCommitFails(r)
    \/ HandlerRollback(r)
    \/ HandlerCommit(r)

Next == \E r \in Runs : PipelineStep(r)

Spec == Init /\ [][Next]_vars

\* The run with extracted lists of at most MaxLiveLines lines.
MaxLiveLines == 1

ExtractShort(r) ==
    /\ run[r].pc = "extract"
    /\ \E reply \in {rep \in Replies : Len(rep.items) <= MaxLiveLines} :
          /\ ~extract_order_data(TRUE, reply).raised
          /\ run' = [run EXCEPT ![r] = AfterExtract(@, extract_order_data(TRUE, reply))]
    /\ UNCHANGED <<fn, settings, products, db, rev>>

LiveStep(r) ==
    \/ Call(r)
    \/ CreateInteraction(r)
    \/ Transcribe(r)
    \/ SafetySkipped(r)
    \/ SafetyProviderFails(r)
    \/ SafetyCheck(r)
    \/ ExtractFails(r)
    \/ ExtractShort(r)
    \/ Lookup(r)
    \/ BuildOrder(r)
    \/ FinalCommit(r)
    \/ FinalCommitFails(r)
    \/ HandlerRollback(r)
    \/ HandlerCommit(r)

NextLive == \E r \in Runs : LiveStep(r)

\* Every awaited provider call and database operation of a run eventually
\* returns or raises: no run waits forever at an await.
SpecLive == Init /\ [][NextLive]_vars /\ \A r \in Runs : WF_vars(LiveStep(r))

(***************************************************************************)
(* routers/orders.py: confirm_order and resolve_anomaly.  Each request has  *)
(* its own session; the engine is created without an isolation level, so   *)
(* PostgreSQL runs the transactions READ COMMITTED: a SELECT sees the rows  *)
(* committed when it starts plus the session's own writes, an UPDATE waits  *)
(* for the row lock, and an object already loaded in the session keeps the  *)
(* attribute values it was loaded with.                                     *)
(***************************************************************************)
MaxOrders == 2
OrderIds == 1..MaxOrders

\* Orders under review were committed by pipeline runs on these inputs.
ReviewInputs ==
    {[tenant_id |-> "t1", items |-> <<[sku |-> "Z", qty |-> NumQty(20003)]>>],
     [tenant_id |-> "t2", items |-> <<>>]}

\* The run object at its final commit, for a call whose providers all answered.
RunAtCommit(id, input) ==
    Built(LookedUp(Extracted(Transcribed(Created(Called(IdleRun, input.tenant_id, "c1"), id),
                                         TRANSCRIPT),
                             input.items),
                   id, InitialProducts))

RECURSIVE CommitAll(_, _, _)
CommitAll(tables, inputs, n) ==
    IF n = 0 THEN tables
    ELSE LET before == CommitAll(tables, inputs, n - 1)
             rr == RunAtCommit(n, inputs[n])
         IN [interactions |-> CommitInteractions(before.interactions, rr),
             logs |-> CommitLogs(before.logs, rr),
             orders |-> CommitOrders(before.orders, rr),
             items |-> CommitItems(before.items, rr),
             anomalies |-> CommitAnomalies(before.anomalies, rr)]

EmptyTables == [interactions |-> EmptyTable, logs |-> EmptyTable, orders |-> EmptyTable,
                items |-> EmptyTable, anomalies |-> EmptyTable]

\* config.py defaults
DefaultSettings == [SAFETY_MODE |-> "log", WHITE_CIRCLE_API_KEY |-> FALSE,
                    ELEVENLABS_API_KEY |-> FALSE, OPENAI_API_KEY |-> FALSE]

\* The committed state after n pipeline runs, with no request in progress.
InitOrders(n) ==
    /\ settings = DefaultSettings
    /\ products = InitialProducts
    /\ \E inputs \in [1..n -> ReviewInputs] :
          LET t == CommitAll(EmptyTables, inputs, n)
          IN /\ db_interactions = t.interactions
             /\ db_logs = t.logs
             /\ db_orders = t.orders
             /\ db_items = t.items
             /\ db_anomalies = t.anomalies
    /\ run = [r \in Runs |-> IdleRun]
    /\ rev = [t \in Sessions |-> IdleSession]
    /\ fn = IdleFn

\* select(Order).where(Order.id == order_id, Order.tenant_id == tenant_id)
SelectOrderAnyTenant(orders, order_id, tenant_id) ==
    IF order_id \in DOMAIN orders THEN Some(orders[order_id]) ELSE None

SelectOrder(orders, order_id, tenant_id) ==
    IF order_id \in DOMAIN orders /\ orders[order_id].tenant_id = tenant_id
    THEN Some(orders[order_id]) ELSE None

\* select(Anomaly).where(Anomaly.id == anomaly_id, Anomaly.order_id == order_id)
SelectAnomaly(anomalies, anomaly_id, order_id) ==
    IF anomaly_id \in DOMAIN anomalies /\ anomalies[anomaly_id].order_id = order_id
    THEN Some(anomalies[anomaly_id]) ELSE None

\* select(Anomaly).where(order_id == order_id, is_resolved == False, id != anomaly_id)
Unresolved(anomalies, order_id) ==
    {a \in DOMAIN anomalies : anomalies[a].order_id = order_id /\ ~anomalies[a].is_resolved}

Remaining(anomalies, order_id, anomaly_id) == Unresolved(anomalies, order_id) \ {anomaly_id}

\* order.status not in (DRAFT, FLAGGED) -> 409
ConfirmableAny(status) == TRUE

ConfirmableDraftOnly(status) == status = DRAFT

Confirmable(status) == status \in {DRAFT, FLAGGED}

\* if not remaining and order.status == FLAGGED: order.status = DRAFT
StatusDraftOnAnyResolve(status, remaining) ==
    IF status = FLAGGED THEN DRAFT ELSE status

StatusConfirmedWhenCleared(status, remaining) ==
    IF remaining = {} /\ status = FLAGGED THEN CONFIRMED ELSE status

StatusAfterResolve(status, remaining) ==
    IF remaining = {} /\ status = FLAGGED THEN DRAFT ELSE status

\* if anomaly.is_resolved: return anomaly
AlreadyResolvedNever(anomaly) == FALSE

AlreadyResolved(anomaly) == anomaly.is_resolved

AnomalyIdSpace == OrderIds \X (1..2)

\* The row lock an uncommitted UPDATE of an anomaly holds until its commit.
AnomalyLockedByOther(t, anomaly_id) ==
    \E u \in Sessions \ {t} :
        rev[u].op = "resolve" /\ rev[u].pc = "commit" /\ rev[u].anomaly_id = anomaly_id

Respond(sess, code) == [sess EXCEPT !.pc = "done", !.response = code]

\* confirm_order: the select, the 404 and 409 checks, order.status = CONFIRMED
ConfirmSelect(t) ==
    /\ rev[t].pc = "idle"
    /\ \E oid \in OrderIds, tenant \in Tenants :
          LET sess == [IdleSession EXCEPT !.op = "confirm", !.order_id = oid,
                                          !.tenant_id = tenant]
              order == SelectOrder(db_orders, oid, tenant)
          IN rev' = [rev EXCEPT ![t] =
                IF IsNone(order) THEN Respond(sess, "404")
                ELSE IF ~Confirmable(Get(order).status)
                     THEN Respond([sess EXCEPT !.order = order,
                                               !.loaded_status = Get(order).status], "409")
                     ELSE [sess EXCEPT !.pc = "commit",
                                       !.loaded_status = Get(order).status,
                                       !.order = Some([Get(order) EXCEPT !.status = CONFIRMED])]]
    /\ UNCHANGED <<fn, settings, products, db, run>>

\* confirm_order: await session.commit() writes the dirty status
ConfirmCommit(t) ==
    /\ rev[t].pc = "commit"
    /\ rev[t].op = "confirm"
    /\ db_orders' = [db_orders EXCEPT ![rev[t].order_id].status = Get(rev[t].order).status]
    /\ rev' = [rev EXCEPT ![t] = [@ EXCEPT !.pc = "refresh"]]
    /\ UNCHANGED <<fn, settings, products, db_interactions, db_logs, db_items,
                   db_anomalies, run>>

\* confirm_order: await session.refresh(order); return order
ConfirmRefresh(t) ==
    /\ rev[t].pc = "refresh"
    /\ rev[t].op = "confirm"
    /\ rev' = [rev EXCEPT ![t] =
                  Respond([@ EXCEPT !.order = Some(db_orders[rev[t].order_id])], "200")]
    /\ UNCHANGED <<fn, settings, products, db, run>>

\* resolve_anomaly: the order select and its 404
ResolveSelectOrder(t) ==
    /\ rev[t].pc = "idle"
    /\ \E oid \in OrderIds, aid \in AnomalyIdSpace, tenant \in Tenants :
          LET sess == [IdleSession EXCEPT !.op = "resolve", !.order_id = oid,
                                          !.anomaly_id = aid, !.tenant_id = tenant,
                                          !.pre_unresolved = Unresolved(db_anomalies, oid)]
              order == SelectOrder(db_orders, oid, tenant)
          IN rev' = [rev EXCEPT ![t] =
                IF IsNone(order) THEN Respond(sess, "404")
                ELSE [sess EXCEPT !.pc = "select_anomaly", !.order = order,
                                  !.loaded_status = Get(order).status]]
    /\ UNCHANGED <<fn, settings, products, db, run>>

\* resolve_anomaly: the anomaly select, its 404, the early return for a
\* resolved anomaly, anomaly.is_resolved = True
ResolveSelectAnomaly(t) ==
    /\ rev[t].pc = "select_anomaly"
    /\ LET sess == rev[t]
           anomaly == SelectAnomaly(db_anomalies, sess.anomaly_id, sess.order_id)
       IN rev' = [rev EXCEPT ![t] =
             IF IsNone(anomaly) THEN Respond(sess, "404")
             ELSE IF AlreadyResolved(Get(anomaly))
                  THEN Respond([sess EXCEPT !.anomaly = anomaly], "200")
                  ELSE [sess EXCEPT !.pc = "select_unresolved",
                                    !.anomaly = Some([Get(anomaly) EXCEPT !.is_resolved = TRUE])]]
    /\ UNCHANGED <<fn, settings, products, db, run>>

\* resolve_anomaly: the autoflush sends the anomaly UPDATE, then the select of
\* the other unresolved anomalies and the FLAGGED -> DRAFT assignment
ResolveSelectUnresolved(t) ==
    /\ rev[t].pc = "select_unresolved"
    /\ ~AnomalyLockedByOther(t, rev[t].anomaly_id)
    /\ LET sess == rev[t]
           remaining == Remaining(db_anomalies, sess.order_id, sess.anomaly_id)
       IN rev' = [rev EXCEPT ![t] =
             [sess EXCEPT !.pc = "commit",
                          !.order = Some([Get(@) EXCEPT
                                !.status = StatusAfterResolve(Get(sess.order).status, remaining)])]]
    /\ UNCHANGED <<fn, settings, products, db, run>>

\* resolve_anomaly: await session.commit() writes the anomaly and, when the
\* status attribute was changed (the object is dirty), the order
ResolveCommit(t) ==
    /\ rev[t].pc = "commit"
    /\ rev[t].op = "resolve"
    /\ LET sess == rev[t]
       IN /\ db_anomalies' = [db_anomalies EXCEPT ![sess.anomaly_id].is_resolved = TRUE]
          /\ db_orders' = IF Get(sess.order).status # sess.loaded_status
                          THEN [db_orders EXCEPT ![sess.order_id].status = Get(sess.order).status]
                          ELSE db_orders
    /\ rev' = [rev EXCEPT ![t] = [@ EXCEPT !.pc = "refresh"]]
    /\ UNCHANGED <<fn, settings, products, db_interactions, db_logs, db_items, run>>

\* resolve_anomaly: await session.refresh(anomaly); return anomaly
ResolveRefresh(t) ==
    /\ rev[t].pc = "refresh"
    /\ rev[t].op = "resolve"
    /\ rev' = [rev EXCEPT ![t] =
                  Respond([@ EXCEPT !.anomaly = Some(db_anomalies[rev[t].anomaly_id])], "200")]
    /\ UNCHANGED <<fn, settings, products, db, run>>

\* The response is sent and the request's session is closed.
Close(t) ==
    /\ rev[t].pc = "done"
    /\ rev' = [rev EXCEPT ![t] = IdleSession]
    /\ UNCHANGED <<fn, settings, products, db, run>>

\* The external fulfillment sync moves a CONFIRMED order to SYNCED.
ExternalSync(oid) ==
    /\ oid \in DOMAIN db_orders
    /\ db_orders[oid].status = CONFIRMED
    /\ db_orders' = [db_orders EXCEPT ![oid].status = SYNCED]
    /\ UNCHANGED <<fn, settings, products, db_interactions, db_logs, db_items,
                   db_anomalies, run, rev>>

ReviewStep(t) ==
    \/ ConfirmSelect(t)
    \/ ConfirmCommit(t)
    \/ ConfirmRefresh(t)
    \/ ResolveSelectOrder(t)
    \/ ResolveSelectAnomaly(t)
    \/ ResolveSelectUnresolved(t)
    \/ ResolveCommit(t)
    \/ ResolveRefresh(t)
    \/ Close(t)

NextReview ==
    \/ \E t \in Sessions : ReviewStep(t)
    \/ \E oid \in OrderIds : ExternalSync(oid)

\* Requests may overlap; they are followed on one order.
InitReview == InitOrders(1)

SpecReview == InitReview /\ [][NextReview]_vars

\* One request at a time: a request starts only when no other is in progress.
OthersIdle(t) == \A u \in Sessions \ {t} : rev[u].pc = "idle"

NextSerial ==
    \/ \E t \in Sessions : OthersIdle(t) /\ ReviewStep(t)
    \/ \E oid \in OrderIds : ExternalSync(oid)

InitSerial == InitOrders(MaxOrders)

SpecSerial == InitSerial /\ [][NextSerial]_vars

(***************************************************************************)
(* One function followed on its own: the arguments are drawn at the start,   *)
(* one step applies the function.                                           *)
(***************************************************************************)
\* Nothing else is running.
Quiescent ==
    /\ settings = DefaultSettings
    /\ products = InitialProducts
    /\ db_interactions = EmptyTable
    /\ db_logs = EmptyTable
    /\ db_orders = EmptyTable
    /\ db_items = EmptyTable
    /\ db_anomalies = EmptyTable
    /\ run = [r \in Runs |-> IdleRun]
    /\ rev = [t \in Sessions |-> IdleSession]

\* detect_anomalies(order_id, order_items) on any OrderItem objects, the unit
\* price possibly None.
DetectQuantities == {1, MAX_REASONABLE_QUANTITY, MAX_REASONABLE_QUANTITY + 1}
DetectPrices == {None, Some(-1), Some(0), Some(5)}
DetectItems == [product_id : {"A", "Z"}, quantity : DetectQuantities, unit_price : DetectPrices]

InitDetect ==
    /\ Quiescent
    /\ fn \in [pc : {"called"}, order_id : OrderIds,
               order_items : SeqsUpTo(DetectItems, MaxLines), out : {<<>>}]

ApplyDetect ==
    /\ fn.pc = "called"
    /\ fn' = [fn EXCEPT !.pc = "returned",
                        !.out = detect_anomalies(fn.order_id, fn.order_items)]
    /\ UNCHANGED <<settings, products, db, run, rev>>

NextDetect == ApplyDetect

SpecDetect == InitDetect /\ [][NextDetect]_vars

\* transcribe_audio as step 2 of a run whose Interaction was just flushed: the
\* file, the download, the write and the two providers' answers are drawn at
\* the start.
InitTranscribe ==
    /\ settings \in SettingsSpace
    /\ products = InitialProducts
    /\ db_interactions = EmptyTable
    /\ db_logs = EmptyTable
    /\ db_orders = EmptyTable
    /\ db_items = EmptyTable
    /\ db_anomalies = EmptyTable
    /\ run = [r \in Runs |-> Created(Called(IdleRun, "t1", "c1"), r)]
    /\ rev = [t \in Sessions |-> IdleSession]
    /\ fn \in [pc : {"called"}, kind : FileKinds, dl : DownloadOutcomes,
               wr : WriteOutcomes, el : ProviderOutcomes, wh : ProviderOutcomes,
               out : {None}]

ApplyTranscribe(r) ==
    /\ fn.pc = "called"
    /\ run[r].pc = "transcribe"
    /\ LET res == transcribe_audio(fn.kind, fn.dl, fn.wr, fn.el, fn.wh, settings)
       IN /\ fn' = [fn EXCEPT !.pc = "exited", !.out = Some(res)]
          /\ run' = [run EXCEPT ![r] = AfterTranscribe(@, res)]
    /\ UNCHANGED <<settings, products, db, rev>>

NextTranscribe ==
    \E r \in Runs :
        \/ ApplyTranscribe(r)
        \/ HandlerRollback(r)
        \/ HandlerCommit(r)

SpecTranscribe == InitTranscribe /\ [][NextTranscribe]_vars

\* extract_order_data as step 3 of a run that has its transcript and skipped
\* the safety gate: the provider's reply is drawn at the start, the rest of the
\* run follows.
ReplyTexts == {rep \in Replies : ~rep.json => rep.items = <<>>}

InitExtract ==
    /\ settings = DefaultSettings
    /\ products = InitialProducts
    /\ db_interactions = EmptyTable
    /\ db_logs = EmptyTable
    /\ db_orders = EmptyTable
    /\ db_items = EmptyTable
    /\ db_anomalies = EmptyTable
    /\ run = [r \in Runs |->
                [Transcribed(Created(Called(IdleRun, "t1", "c1"), r), TRANSCRIPT)
                    EXCEPT !.pc = "extract"]]
    /\ rev = [t \in Sessions |-> IdleSession]
    /\ fn \in [pc : {"called"}, api_ok : BOOLEAN, reply : ReplyTexts, out : {None}]

ApplyExtract(r) ==
    /\ fn.pc = "called"
    /\ run[r].pc = "extract"
    /\ LET res == extract_order_data(fn.api_ok, fn.reply)
       IN /\ fn' = [fn EXCEPT !.pc = "exited", !.out = Some(res)]
          /\ run' = [run EXCEPT ![r] = AfterExtract(@, res)]
    /\ UNCHANGED <<settings, products, db, rev>>

NextExtract ==
    \E r \in Runs :
        \/ ApplyExtract(r)
        \/ Lookup(r)
        \/ BuildOrder(r)
        \/ FinalCommit(r)
        \/ FinalCommitFails(r)
        \/ HandlerRollback(r)
        \/ HandlerCommit(r)

SpecExtract == InitExtract /\ [][NextExtract]_vars

\* The text path: routers/interactions.py process_text calls
\* orchestrator.process_text(transcript=body.transcript, ...), a method the
\* orchestrator module does not contain.  It is modelled as the same pipeline
\* with step 2 replaced by the supplied transcript.
TextBodies == {"typed order", "second typed order"}

TextTranscriptIgnored(body_transcript) == TRANSCRIPT

TextTranscript(body_transcript) == body_transcript

SupplyTranscript(r) ==
    /\ run[r].pc = "transcribe"
    /\ run' = [run EXCEPT ![r] = Transcribed(@, TextTranscript(fn.transcript))]
    /\ UNCHANGED <<fn, settings, products, db, rev>>

InitText ==
    /\ settings \in {s \in SettingsSpace : ~s.ELEVENLABS_API_KEY /\ ~s.OPENAI_API_KEY}
    /\ products = InitialProducts
    /\ db_interactions = EmptyTable
    /\ db_logs = EmptyTable
    /\ db_orders = EmptyTable
    /\ db_items = EmptyTable
    /\ db_anomalies = EmptyTable
    /\ run = [r \in Runs |-> IdleRun]
    /\ rev = [t \in Sessions |-> IdleSession]
    /\ fn \in [pc : {"text"}, transcript : TextBodies]

NextText ==
    \E r \in Runs :
        \/ Call(r)
        \/ CreateInteraction(r)
        \/ SupplyTranscript(r)
        \/ SafetySkipped(r)
        \/ SafetyProviderFails(r)
        \/ SafetyCheck(r)
        \/ ExtractFails(r)
        \/ Extract(r)
        \/ Lookup(r)
        \/ BuildOrder(r)
        \/ FinalCommit(r)
        \/ FinalCommitFails(r)
        \/ HandlerRollback(r)
        \/ HandlerCommit(r)

SpecText == InitText /\ [][NextText]_vars

\* Committed orders whose catalog prices change afterwards, and the order view
\* GET /orders/{id} serves.
CatalogInputs ==
    {[tenant_id |-> "t1", items |-> <<[sku |-> "A", qty |-> NumQty(4)],
                                      [sku |-> "Z", qty |-> NumQty(2)]>>],
     [tenant_id |-> "t1", items |-> <<[sku |-> "A", qty |-> NumQty(20003)]>>],
     [tenant_id |-> "t2", items |-> <<[sku |-> "X", qty |-> NumQty(4)]>>]}

CatalogPrices == {0, 3, 5, 7}

\* OrderItemRead (from_attributes) of an OrderItem loaded with its product.
OrderItemReadFromProduct(item, prods) ==
    [product_id |-> item.product_id, quantity |-> item.quantity,
     unit_price |-> Some(prods[item.product_id].price),
     product |-> prods[item.product_id]]

OrderItemRead(item, prods) ==
    [product_id |-> item.product_id, quantity |-> item.quantity,
     unit_price |-> item.unit_price,
     product |-> prods[item.product_id]]

OrderDetailRead(order, items, prods) ==
    [id |-> order.id, tenant_id |-> order.tenant_id, status |-> order.status,
     total_amount |-> order.total_amount,
     items |-> [i \in 1..Len(items) |-> OrderItemRead(items[i], prods)]]

InitCatalog ==
    /\ settings = DefaultSettings
    /\ products = InitialProducts
    /\ \E inputs \in [OrderIds -> CatalogInputs] :
          LET t == CommitAll(EmptyTables, inputs, MaxOrders)
          IN /\ db_interactions = t.interactions
             /\ db_logs = t.logs
             /\ db_orders = t.orders
             /\ db_items = t.items
             /\ db_anomalies = t.anomalies
    /\ run = [r \in Runs |-> IdleRun]
    /\ rev = [t \in Sessions |-> IdleSession]
    /\ fn = IdleFn

\* The price column of one Product row is updated.
CatalogPriceChange(sku, price) ==
    /\ products[sku].price # price
    /\ products' = [products EXCEPT ![sku].price = price]
    /\ UNCHANGED <<fn, settings, db, run, rev>>

\* GET /orders/{order_id}
GetOrderDetail(oid, tenant) ==
    /\ LET order == SelectOrder(db_orders, oid, tenant)
       IN fn' = [pc |-> "read", order_id |-> oid, tenant_id |-> tenant,
                 out |-> IF IsNone(order) THEN None
                         ELSE Some(OrderDetailRead(Get(order), db_items[oid], products))]
    /\ UNCHANGED <<settings, products, db, run, rev>>

NextCatalog ==
    \/ \E sku \in CatalogSkus, price \in CatalogPrices : CatalogPriceChange(sku, price)
    \/ \E oid \in OrderIds, tenant \in Tenants : GetOrderDetail(oid, tenant)

SpecCatalog == InitCatalog /\ [][NextCatalog]_vars

\* Two runs of one tenant, each with its own session, from the point where
\* extraction has returned, while catalog prices change.
PriceRuns == {1, 2}

PriceInputs ==
    {<<[sku |-> "A", qty |-> NumQty(4)], [sku |-> "A", qty |-> NumQty(2)]>>,
     <<[sku |-> "A", qty |-> NumQty(2)]>>}

\* The products whose price is updated meanwhile: the one the runs order and
\* one they do not.
ChangingSkus == {"A", "Z"}

InitPrices ==
    /\ settings = DefaultSettings
    /\ products = InitialProducts
    /\ db_interactions = EmptyTable
    /\ db_logs = EmptyTable
    /\ db_orders = EmptyTable
    /\ db_items = EmptyTable
    /\ db_anomalies = EmptyTable
    /\ \E inputs \in [PriceRuns -> PriceInputs] :
          run = [r \in PriceRuns |->
                    Extracted(Transcribed(Created(Called(IdleRun, "t1", "c1"), r),
                                          TRANSCRIPT),
                              inputs[r])]
    /\ rev = [t \in Sessions |-> IdleSession]
    /\ fn = IdleFn

NextPrices ==
    \/ \E r \in PriceRuns :
          \/ Lookup(r)
          \/ BuildOrder(r)
          \/ FinalCommit(r)
          \/ FinalCommitFails(r)
          \/ HandlerRollback(r)
          \/ HandlerCommit(r)
    \/ \E sku \in ChangingSkus, price \in CatalogPrices : CatalogPriceChange(sku, price)

SpecPrices == InitPrices /\ [][NextPrices]_vars

(***************************************************************************)
(* Properties                                                              *)
(***************************************************************************)
RECURSIVE SumLineTotals(_)
SumLineTotals(items) ==
    IF items = <<>> THEN 0
    ELSE Head(items).quantity * Get(Head(items).unit_price) + SumLineTotals(Tail(items))

Finished(r) == run[r].pc \in {"returned", "raised"}

AnomaliesOf(order_id) == {a \in DOMAIN db_anomalies : db_anomalies[a].order_id = order_id}

\* C1: when a run has returned its summary, the committed order's total_amount
\* is the sum of quantity * unit_price over the order's committed items.
C1_TotalIsSumOfItems ==
    \A r \in Runs : run[r].pc = "returned" =>
        LET oid == Get(run[r].result).order_id
        IN /\ oid \in DOMAIN db_orders
           /\ oid \in DOMAIN db_items
           /\ db_orders[oid].total_amount = SumLineTotals(db_items[oid])

C1_Witness ==
    \E r \in Runs :
        /\ run[r].pc = "returned"
        /\ Len(db_items[r]) = 2
        /\ db_items[r][1].quantity # db_items[r][2].quantity
        /\ db_orders[r].total_amount > 0

\* C2: once the call is over and the Interaction had been flushed, the stored
\* Interaction is PROCESSED when the final commit was reached, else FAILED.
C2_InteractionEndsProcessedOrFailed ==
    \A r \in Runs : (Finished(r) /\ run[r].flushed) =>
        /\ r \in DOMAIN db_interactions
        /\ db_interactions[r].status = IF run[r].committed THEN PROCESSED ELSE FAILED

\* C3: no analysis log, order, item or anomaly of a run is in committed state
\* unless the run's final commit succeeded, and then they are all there.
C3_AllOrNothing ==
    \A r \in Runs :
        IF run[r].committed
        THEN /\ r \in DOMAIN db_logs /\ db_logs[r] = Get(run[r].analysis_log)
             /\ r \in DOMAIN db_orders /\ db_orders[r] = Get(run[r].order)
             /\ r \in DOMAIN db_items /\ db_items[r] = run[r].order_item_objects
             /\ AnomaliesOf(r) = {<<r, i>> : i \in 1..Len(run[r].anomalies)}
             /\ \A a \in AnomaliesOf(r) : db_anomalies[a] = run[r].anomalies[a[2]]
        ELSE /\ r \notin DOMAIN db_logs
             /\ r \notin DOMAIN db_orders
             /\ r \notin DOMAIN db_items
             /\ AnomaliesOf(r) = {}

C3_Witness ==
    \E r \in Runs :
        /\ run[r].pc = "raised"
        /\ ~IsNone(run[r].analysis_log)
        /\ Len(run[r].order_item_objects) > 0
        /\ Len(run[r].anomalies) > 0

\* C4: a committed pipeline order is FLAGGED exactly when detect_anomalies
\* returned anomalies for its items, and DRAFT otherwise.
C4_FlaggedIffAnomalies ==
    \A r \in Runs : run[r].pc = "returned" =>
        LET oid == Get(run[r].result).order_id
        IN /\ db_orders[oid].status \in {DRAFT, FLAGGED}
           /\ db_orders[oid].status = FLAGGED <=> Len(run[r].anomalies) > 0
           /\ run[r].anomalies = detect_anomalies(oid, db_items[oid])

C4_Witness ==
    \E r \in Runs : run[r].pc = "returned" /\ db_orders[r].status = FLAGGED

\* C5: strict mode with a key: a block verdict ends the run with
\* ContentSafetyError carrying the reason, without extraction or order.
BlockedStrict(r) ==
    /\ settings.SAFETY_MODE = "strict"
    /\ settings.WHITE_CIRCLE_API_KEY
    /\ ~IsNone(run[r].safety_verdict)
    /\ Get(run[r].safety_verdict).decision = "block"

C5_StrictBlockAborts ==
    \A r \in Runs : BlockedStrict(r) =>
        /\ run[r].pc \in {"except", "mark_failed", "raised"}
        /\ run[r].exc = "ContentSafetyError"
        /\ Get(run[r].safety_verdict).reason # ABSENT =>
               run[r].exc_msg = Get(run[r].safety_verdict).reason
        /\ run[r].n_extract = 0
        /\ IsNone(run[r].order)
        /\ r \notin DOMAIN db_orders

C5_Witness ==
    \E r \in Runs :
        /\ BlockedStrict(r)
        /\ run[r].pc = "raised"
        /\ run[r].exc = "ContentSafetyError"
        /\ run[r].exc_msg = "policy-7"

\* C6: the committed items are the extracted lines whose SKU is in the run
\* tenant's catalog, one item per line in input order; other lines are dropped
\* without an error, and with no resolved line the order is empty, 0, DRAFT.
ResolvedLines(extracted, tenant) ==
    LET resolves(raw) == raw.sku \in DOMAIN products /\ products[raw.sku].tenant_id = tenant
    IN SelectSeq(extracted, resolves)

C6_ItemsAreResolvedLines ==
    \A r \in Runs :
        LET lines == ResolvedLines(run[r].extracted_items, run[r].tenant_id)
        IN /\ run[r].pc = "returned" =>
                /\ Len(db_items[r]) = Len(lines)
                /\ \A i \in 1..Len(lines) :
                      /\ db_items[r][i].product_id = lines[i].sku
                      /\ db_items[r][i].quantity = PyInt(lines[i].qty)
                /\ lines = <<>> => /\ db_orders[r].total_amount = 0
                                   /\ db_orders[r].status = DRAFT
           /\ run[r].exc = "ValueError" => \E i \in 1..Len(lines) : IntRaises(lines[i].qty)

C6_Witness ==
    \E r \in Runs :
        /\ run[r].pc = "returned"
        /\ Len(run[r].extracted_items) = 2
        /\ run[r].extracted_items[1].sku = "X"
        /\ Len(db_items[r]) = 1

\* C7: with one request at a time, resolving the last unresolved anomaly of a
\* FLAGGED order marks the anomaly resolved and leaves the order DRAFT.
ResolvedLast(t) ==
    /\ rev[t].op = "resolve"
    /\ rev[t].pc = "done"
    /\ rev[t].response = "200"
    /\ rev[t].loaded_status = FLAGGED
    /\ rev[t].pre_unresolved = {rev[t].anomaly_id}

C7_LastResolveGivesDraft ==
    \A t \in Sessions : ResolvedLast(t) =>
        /\ db_anomalies[rev[t].anomaly_id].is_resolved
        /\ db_orders[rev[t].order_id].status = DRAFT

C7_Witness ==
    \E t \in Sessions :
        /\ ResolvedLast(t)
        /\ Cardinality(AnomaliesOf(rev[t].order_id)) = 2
        /\ db_orders[rev[t].order_id].status = DRAFT

\* C8: when no resolve_anomaly request is in progress, a FLAGGED order has at
\* least one unresolved anomaly.
NoRequestInProgress == \A t \in Sessions : rev[t].pc \in {"idle", "done"}

C8_FlaggedHasUnresolved ==
    NoRequestInProgress =>
        \A o \in DOMAIN db_orders :
            db_orders[o].status = FLAGGED => Unresolved(db_anomalies, o) # {}

\* C9: a reviewer request changes an order's committed status only along
\* FLAGGED -> DRAFT, DRAFT -> CONFIRMED or FLAGGED -> CONFIRMED.
ReviewerTransitions == {<<FLAGGED, DRAFT>>, <<DRAFT, CONFIRMED>>, <<FLAGGED, CONFIRMED>>}

C9_StatusMovesForward ==
    [][rev' # rev =>
         \A o \in DOMAIN db_orders :
             \/ db_orders'[o].status = db_orders[o].status
             \/ <<db_orders[o].status, db_orders'[o].status>> \in ReviewerTransitions]_vars

\* C10: confirm_order on a CONFIRMED or SYNCED order answers 409 and changes
\* neither the order nor any anomaly.
ConfirmStarts(t) == rev[t].pc = "idle" /\ rev'[t].op = "confirm" /\ rev'[t].pc # "idle"

C10_ConfirmRejectedOnFinalStatus ==
    [][\A t \in Sessions :
         (/\ ConfirmStarts(t)
          /\ ~IsNone(SelectOrder(db_orders, rev'[t].order_id, rev'[t].tenant_id))
          /\ db_orders[rev'[t].order_id].status \in {CONFIRMED, SYNCED})
         => /\ rev'[t].pc = "done"
            /\ rev'[t].response = "409"
            /\ db_orders' = db_orders
            /\ db_anomalies' = db_anomalies]_vars

C10_Witness ==
    \E t \in Sessions :
        /\ rev[t].op = "confirm"
        /\ rev[t].pc = "done"
        /\ rev[t].response = "409"
        /\ rev[t].loaded_status = SYNCED

\* C11: confirm_order on an order of the caller's tenant that is DRAFT or
\* FLAGGED is not rejected, its commit stores CONFIRMED whether or not anomalies
\* are still unresolved, it answers 200, and no step of it changes an anomaly.
ConfirmCommits(t) == rev[t].op = "confirm" /\ rev[t].pc = "commit" /\ rev'[t].pc = "refresh"

ConfirmReturns(t) == rev[t].op = "confirm" /\ rev[t].pc = "refresh" /\ rev'[t].pc = "done"

C11_ConfirmSetsConfirmed ==
    [][\A t \in Sessions :
         /\ (/\ ConfirmStarts(t)
             /\ ~IsNone(SelectOrder(db_orders, rev'[t].order_id, rev'[t].tenant_id))
             /\ db_orders[rev'[t].order_id].status \in {DRAFT, FLAGGED})
            => /\ rev'[t].pc = "commit"
               /\ db_anomalies' = db_anomalies
         /\ ConfirmCommits(t)
            => /\ db_orders'[rev[t].order_id].status = CONFIRMED
               /\ db_anomalies' = db_anomalies
         /\ ConfirmReturns(t)
            => /\ rev'[t].response = "200"
               /\ db_anomalies' = db_anomalies]_vars

C11_Witness ==
    \E t \in Sessions :
        /\ rev[t].op = "confirm"
        /\ rev[t].pc = "done"
        /\ rev[t].response = "200"
        /\ rev[t].loaded_status = FLAGGED
        /\ db_orders[rev[t].order_id].status = CONFIRMED
        /\ Cardinality(Unresolved(db_anomalies, rev[t].order_id)) = 2

\* C12: resolve_anomaly on an unresolved anomaly of an order with another
\* unresolved anomaly stores that anomaly as resolved and nothing else: the
\* order's status and every other anomaly stay as they are.
ResolveCommits(t) == rev[t].op = "resolve" /\ rev[t].pc = "commit" /\ rev'[t].pc = "refresh"

ResolveMoves(t) == rev'[t] # rev[t] /\ (rev[t].op = "resolve" \/ rev'[t].op = "resolve")

C12_NonLastResolveTouchesOnlyAnomaly ==
    [][\A t \in Sessions :
         /\ (ResolveCommits(t)
              /\ Remaining(db_anomalies, rev[t].order_id, rev[t].anomaly_id) # {})
            => /\ db_orders' = db_orders
               /\ db_anomalies' = [db_anomalies EXCEPT ![rev[t].anomaly_id].is_resolved = TRUE]
               /\ ~db_anomalies[rev[t].anomaly_id].is_resolved
         /\ (ResolveMoves(t) /\ ~ResolveCommits(t))
            => /\ db_orders' = db_orders
               /\ db_anomalies' = db_anomalies]_vars

C12_Witness ==
    \E t \in Sessions :
        /\ rev[t].op = "resolve"
        /\ rev[t].pc = "done"
        /\ rev[t].response = "200"
        /\ rev[t].anomaly_id \in rev[t].pre_unresolved
        /\ Cardinality(rev[t].pre_unresolved) = 2
        /\ db_anomalies[rev[t].anomaly_id].is_resolved
        /\ Cardinality(Unresolved(db_anomalies, rev[t].order_id)) = 1
        /\ db_orders[rev[t].order_id].status = FLAGGED

\* C13: resolve_anomaly on an anomaly that is already resolved returns that
\* anomaly as stored and writes nothing, whatever the order's status is.
ResolveFindsResolved(t) ==
    /\ rev[t].op = "resolve"
    /\ rev[t].pc = "select_anomaly"
    /\ rev'[t] # rev[t]
    /\ ~IsNone(SelectAnomaly(db_anomalies, rev[t].anomaly_id, rev[t].order_id))
    /\ db_anomalies[rev[t].anomaly_id].is_resolved

C13_ResolveIsIdempotent ==
    [][\A t \in Sessions : ResolveFindsResolved(t) =>
           /\ rev'[t].pc = "done"
           /\ rev'[t].response = "200"
           /\ rev'[t].anomaly = Some(db_anomalies[rev[t].anomaly_id])
           /\ db_anomalies' = db_anomalies
           /\ db_orders' = db_orders]_vars

C13_Witness ==
    \E t \in Sessions :
        /\ rev[t].op = "resolve"
        /\ rev[t].pc = "done"
        /\ rev[t].response = "200"
        /\ rev[t].anomaly_id \notin rev[t].pre_unresolved
        /\ ~IsNone(rev[t].anomaly)
        /\ Get(rev[t].anomaly).is_resolved
        /\ db_orders[rev[t].order_id].status = DRAFT

\* C14: log mode with a key: a block verdict does not end the run; extraction
\* is called next, no ContentSafetyError is raised, and when the final commit
\* succeeds the stored analysis log holds the block verdict.
BlockedLog(r) ==
    /\ settings.SAFETY_MODE = "log"
    /\ settings.WHITE_CIRCLE_API_KEY
    /\ ~IsNone(run[r].safety_verdict)
    /\ Get(run[r].safety_verdict).decision = "block"

C14_LogBlockContinues ==
    \A r \in Runs : BlockedLog(r) =>
        /\ run[r].exc # "ContentSafetyError"
        /\ run[r].pc # "safety"
        /\ run[r].pc # "extract" => run[r].n_extract = 1
        /\ run[r].committed =>
              /\ r \in DOMAIN db_logs
              /\ db_logs[r].safety_verdict = run[r].safety_verdict

C14_Witness ==
    \E r \in Runs :
        /\ BlockedLog(r)
        /\ run[r].pc = "returned"
        /\ r \in DOMAIN db_orders
        /\ Get(db_logs[r].safety_verdict).decision = "block"
        /\ Get(db_logs[r].safety_verdict).reason = "policy-7"

\* C15: with mode off, or with no White Circle key in any mode, the safety
\* provider is never called, no ContentSafetyError is raised, and the analysis
\* log, in the session and as stored, holds a null safety verdict.
C15_SafetySkipped ==
    (settings.SAFETY_MODE = "off" \/ ~settings.WHITE_CIRCLE_API_KEY) =>
        \A r \in Runs :
            /\ run[r].n_safety = 0
            /\ run[r].exc # "ContentSafetyError"
            /\ IsNone(run[r].safety_verdict)
            /\ ~IsNone(run[r].analysis_log) =>
                   IsNone(Get(run[r].analysis_log).safety_verdict)
            /\ r \in DOMAIN db_logs => IsNone(db_logs[r].safety_verdict)

C15_Witness ==
    \E r \in Runs :
        /\ settings.SAFETY_MODE = "strict"
        /\ ~settings.WHITE_CIRCLE_API_KEY
        /\ run[r].pc = "returned"
        /\ r \in DOMAIN db_logs
        /\ IsNone(db_logs[r].safety_verdict)

\* C16: detect_anomalies returns one UNUSUAL_VOLUME anomaly of severity 8.00
\* for each item with quantity > 10000 (not for 10000) and one ZERO_PRICE
\* anomaly of severity 6.50 for each item whose unit price is None or <= 0, and
\* nothing else; every anomaly has the given order id and is unresolved.
IndicesWhere(s, P(_)) == {i \in 1..Len(s) : P(s[i])}

OverThreshold(item) == item.quantity > 10000

NoPositivePrice(item) == item.unit_price = None \/ Get(item.unit_price) <= 0

IsVolume(a) == a.rule_code = "UNUSUAL_VOLUME"

IsPrice(a) == a.rule_code = "ZERO_PRICE"

C16_AnomalyRules ==
    fn.pc = "returned" =>
        /\ \A k \in 1..Len(fn.out) :
              /\ fn.out[k].order_id = fn.order_id
              /\ ~fn.out[k].is_resolved
              /\ \/ IsVolume(fn.out[k]) /\ fn.out[k].severity_score = 800
                                       /\ fn.out[k].description.quantity > 10000
                 \/ IsPrice(fn.out[k]) /\ fn.out[k].severity_score = 650
                                      /\ NoPositivePrice(fn.out[k].description)
        /\ Cardinality(IndicesWhere(fn.out, IsVolume))
              = Cardinality(IndicesWhere(fn.order_items, OverThreshold))
        /\ Cardinality(IndicesWhere(fn.out, IsPrice))
              = Cardinality(IndicesWhere(fn.order_items, NoPositivePrice))

C16_Witness ==
    /\ fn.pc = "returned"
    /\ Len(fn.order_items) = 2
    /\ fn.order_items[1].quantity = 10000
    /\ fn.order_items[1].unit_price = Some(5)
    /\ fn.order_items[2].quantity = 10001
    /\ fn.order_items[2].unit_price = None
    /\ Len(fn.out) = 2

\* C17: the anomalies come in the order of the items that trigger them, and
\* for an item that triggers both rules UNUSUAL_VOLUME comes right before
\* ZERO_PRICE.
RECURSIVE ExpectedOrder(_)
ExpectedOrder(items) ==
    IF items = <<>> THEN <<>>
    ELSE (IF OverThreshold(Head(items))
          THEN <<[rule_code |-> "UNUSUAL_VOLUME", product_id |-> Head(items).product_id]>>
          ELSE <<>>)
         \o (IF NoPositivePrice(Head(items))
             THEN <<[rule_code |-> "ZERO_PRICE", product_id |-> Head(items).product_id]>>
             ELSE <<>>)
         \o ExpectedOrder(Tail(items))

C17_AnomaliesInItemOrder ==
    fn.pc = "returned" =>
        [k \in 1..Len(fn.out) |->
            [rule_code |-> fn.out[k].rule_code,
             product_id |-> fn.out[k].description.product_id]]
        = ExpectedOrder(fn.order_items)

C17_Witness ==
    /\ fn.pc = "returned"
    /\ Len(fn.order_items) = 2
    /\ fn.order_items[1].product_id = "Z"
    /\ OverThreshold(fn.order_items[1]) /\ NoPositivePrice(fn.order_items[1])
    /\ fn.order_items[2].product_id = "A"
    /\ OverThreshold(fn.order_items[2]) /\ ~NoPositivePrice(fn.order_items[2])
    /\ Len(fn.out) = 3

\* C18: transcribe_audio requests ElevenLabs first when its key is set, and
\* Whisper only when its key is set and ElevenLabs is not configured or did not
\* return a transcript; when ElevenLabs returns a transcript Whisper is not
\* requested; no provider is requested twice.
FileAvailable ==
    \/ fn.kind = "local"
    \/ fn.kind = "remote" /\ fn.dl = "ok" /\ fn.wr = "ok"

Requested(provider) == \E k \in 1..Len(Get(fn.out).calls) : Get(fn.out).calls[k] = provider

C18_PrimaryThenFallback ==
    fn.pc = "exited" =>
        /\ Get(fn.out).calls \in {<<>>, <<"elevenlabs">>, <<"whisper">>,
                                  <<"elevenlabs", "whisper">>}
        /\ Requested("elevenlabs") <=> (FileAvailable /\ settings.ELEVENLABS_API_KEY)
        /\ Requested("whisper") <=>
              /\ FileAvailable
              /\ settings.OPENAI_API_KEY
              /\ ~settings.ELEVENLABS_API_KEY \/ fn.el # "text"
        /\ (FileAvailable /\ settings.ELEVENLABS_API_KEY /\ fn.el = "text") =>
              /\ ~Get(fn.out).raised
              /\ Get(fn.out).calls = <<"elevenlabs">>

C18_Witness ==
    /\ fn.pc = "exited"
    /\ fn.el = "empty"
    /\ Get(fn.out).calls = <<"elevenlabs", "whisper">>
    /\ ~Get(fn.out).raised
    /\ Get(fn.out).value = TRANSCRIPT

\* C19: with the audio available locally, transcribe_audio raises exactly when
\* no provider whose key is set returns a transcript; the error is a
\* TranscriptionError whose message names the reason of each provider that was
\* requested, or the missing keys, and the run fails with that error.
ReasonOf(provider) ==
    IF provider = "elevenlabs"
    THEN "ElevenLabs: " \o (IF fn.el = "empty" THEN "ElevenLabs returned empty transcript"
                                               ELSE "elevenlabs request failed")
    ELSE "Whisper: " \o (IF fn.wh = "empty" THEN "Whisper returned empty transcript"
                                            ELSE "whisper request failed")

ExpectedFailureText ==
    "All transcription providers failed. " \o
    (CASE settings.ELEVENLABS_API_KEY /\ settings.OPENAI_API_KEY ->
              ReasonOf("elevenlabs") \o "; " \o ReasonOf("whisper")
       [] settings.ELEVENLABS_API_KEY /\ ~settings.OPENAI_API_KEY -> ReasonOf("elevenlabs")
       [] ~settings.ELEVENLABS_API_KEY /\ settings.OPENAI_API_KEY -> ReasonOf("whisper")
       [] OTHER -> "No transcription API keys configured")

SomeProviderAnswers ==
    \/ settings.ELEVENLABS_API_KEY /\ fn.el = "text"
    \/ settings.OPENAI_API_KEY /\ fn.wh = "text"

C19_TranscriptionErrorWhenAllFail ==
    (fn.pc = "exited" /\ FileAvailable) =>
        /\ Get(fn.out).raised <=> ~SomeProviderAnswers
        /\ Get(fn.out).raised =>
              /\ Get(fn.out).exc = "TranscriptionError"
              /\ Get(fn.out).msg = ExpectedFailureText
              /\ \A r \in Runs :
                    /\ run[r].pc \in {"except", "mark_failed", "raised"}
                    /\ run[r].exc = "TranscriptionError"
                    /\ run[r].exc_msg = Get(fn.out).msg
        /\ ~Get(fn.out).raised => \A r \in Runs : run[r].pc = "safety"

C19_Witness ==
    /\ fn.pc = "exited"
    /\ fn.kind = "remote"
    /\ settings.ELEVENLABS_API_KEY /\ settings.OPENAI_API_KEY
    /\ fn.el = "error" /\ fn.wh = "empty"
    /\ Get(fn.out).raised
    /\ \A r \in Runs : run[r].pc = "raised" /\ run[r].exc = "TranscriptionError"

\* C20: for a remote URL, once the temporary file was created it is no longer
\* on disk when transcribe_audio has returned or raised.
C20_TempCopyDeleted ==
    (fn.pc = "exited" /\ fn.kind = "remote" /\ Get(fn.out).tmp_created) =>
        ~Get(fn.out).tmp_exists

\* C21: a reply that is a valid JSON array, in markdown fences or not, makes
\* extract_order_data return the array's items.
C21_FencedReplyParsed ==
    (fn.pc = "exited" /\ fn.api_ok /\ fn.reply.json) =>
        /\ ~Get(fn.out).raised
        /\ Get(fn.out).value = fn.reply.items

\* C22: a reply that is not valid JSON makes extract_order_data raise
\* ExtractionError, the run fails with it, and the extraction provider is
\* called at most once in the run.
C22_ExtractionErrorFatal ==
    \A r \in Runs :
        /\ run[r].n_extract <= 1
        /\ (fn.pc = "exited" /\ fn.api_ok /\ ~fn.reply.json) =>
              /\ Get(fn.out).raised
              /\ Get(fn.out).exc = "ExtractionError"
              /\ run[r].exc = "ExtractionError"
              /\ run[r].pc \in {"except", "mark_failed", "raised"}
              /\ IsNone(run[r].order)

\* C23: on the text path the supplied transcript is the run's transcript,
\* transcribe_audio is never called, and a run that passed the safety gate and
\* extraction and reaches its commit stores the order, with the supplied text
\* in its analysis log, and returns the summary.
PastTranscript(r) == run[r].pc \in {"safety", "extract", "lookup", "build", "commit", "returned"}

ForwardEdges ==
    {<<"idle", "create">>, <<"create", "transcribe">>, <<"transcribe", "safety">>,
     <<"safety", "extract">>, <<"extract", "lookup">>, <<"lookup", "build">>,
     <<"build", "commit">>, <<"commit", "returned">>}

FailureEdges ==
    {<<p, "except">> : p \in {"create", "transcribe", "safety", "extract", "lookup",
                              "build", "commit"}}
    \cup {<<"except", "mark_failed">>, <<"mark_failed", "raised">>}

C24_StepsInFixedOrder ==
    [][\A r \in Runs :
         /\ run'[r].pc # run[r].pc =>
               <<run[r].pc, run'[r].pc>> \in ForwardEdges \cup FailureEdges
         /\ run'[r].pc = "transcribe" =>
               /\ run'[r].flushed
               /\ Get(run'[r].interaction).status = PENDING
         /\ run'[r].n_transcribe <= 1 /\ run'[r].n_safety <= 1 /\ run'[r].n_extract <= 1
         /\ run'[r].n_transcribe = 1 => run'[r].flushed
         /\ run'[r].n_safety = 1 => run'[r].n_transcribe = 1
         /\ run'[r].n_extract = 1 => run'[r].n_transcribe = 1
         /\ run'[r].pc = "extract" => run'[r].n_safety = (IF SafetyEnabled(settings) THEN 1 ELSE 0)
         /\ run'[r].pc = "extract" => run'[r].n_extract = 0
         /\ ~IsNone(run'[r].order) => run'[r].n_extract = 1]_vars

C24_Witness ==
    \E r \in Runs :
        /\ run[r].pc = "returned"
        /\ run[r].n_transcribe = 1
        /\ run[r].n_safety = 1
        /\ run[r].n_extract = 1
        /\ r \in DOMAIN db_orders

\* C25: when the FAILED-marking commit raises, that exception is swallowed:
\* the call ends by raising the exception the except block was entered with.
C25_OriginalErrorSurfaces ==
    [][\A r \in Runs :
         run[r].pc \in {"except", "mark_failed"} =>
             /\ run'[r].exc = run[r].exc
             /\ run'[r].exc_msg = run[r].exc_msg
             /\ run'[r].pc \in {run[r].pc,
                                IF run[r].pc = "except" THEN "mark_failed" ELSE "raised"}]_vars

C25_Witness ==
    \E r \in Runs :
        /\ run[r].pc = "raised"
        /\ run[r].swallowed
        /\ run[r].exc = "ContentSafetyError"

\* C26: the endpoint answers a ContentSafetyError with 422 and any other
\* failure of the run with 500 and a fixed detail that is not the exception's
\* text.
C26_SafetyIs422OthersAre500 ==
    \A r \in Runs : run[r].pc = "raised" =>
        /\ ~IsNone(run[r].response)
        /\ IF run[r].exc = "ContentSafetyError"
           THEN Get(run[r].response).status = 422
           ELSE /\ Get(run[r].response).status = 500
                /\ Get(run[r].response).detail = "Internal server error"
                /\ Get(run[r].response).detail # run[r].exc_msg

C26_Witness ==
    \E r \in Runs :
        /\ run[r].pc = "raised"
        /\ run[r].exc = "ValueError"
        /\ Get(run[r].response).status = 500

\* C27: every stored OrderItem has a quantity greater than zero.
C27_StoredQuantityPositive ==
    \A oid \in DOMAIN db_items :
        \A i \in 1..Len(db_items[oid]) : db_items[oid][i].quantity > 0

\* C28: every stored Order has a total_amount of at least zero.
C28_StoredTotalNonNegative ==
    \A oid \in DOMAIN db_orders : db_orders[oid].total_amount >= 0

\* The total of the lines at the prices the catalog had when the order was built.
RECURSIVE TotalAtOrderTime(_)
TotalAtOrderTime(items) ==
    IF items = <<>> THEN 0
    ELSE Head(items).quantity * InitialProducts[Head(items).product_id].price
         + TotalAtOrderTime(Tail(items))

PricedAtOrderTime(items) ==
    \A i \in 1..Len(items) :
        items[i].unit_price = Some(InitialProducts[items[i].product_id].price)

\* C29: whatever the catalog prices become after an order was committed, the
\* stored and the served unit_price of each of its items is the price the
\* catalog had when the order was built, and total_amount is the total at
\* those prices.
C29_UnitPriceIsSnapshot ==
    /\ \A oid \in DOMAIN db_orders :
          /\ PricedAtOrderTime(db_items[oid])
          /\ db_orders[oid].total_amount = TotalAtOrderTime(db_items[oid])
    /\ (fn.pc = "read" /\ ~IsNone(fn.out)) =>
          /\ PricedAtOrderTime(Get(fn.out).items)
          /\ Get(fn.out).total_amount = TotalAtOrderTime(Get(fn.out).items)

C29_Witness ==
    /\ fn.pc = "read"
    /\ ~IsNone(fn.out)
    /\ \E i \in 1..Len(Get(fn.out).items) :
          LET item == Get(fn.out).items[i]
          IN /\ item.product.price # Get(item.unit_price)
             /\ item.product.price # 0
             /\ Get(item.unit_price) # 0

\* SKUs of the extracted lines that are in a catalog, but not in the tenant's.
ForeignSkus(extracted, tenant) ==
    {s \in SkusOf(extracted) \cap DOMAIN products : products[s].tenant_id # tenant}

\* C30: the Interaction and the Order a run stores carry the run's tenant id,
\* every stored OrderItem of the run references a Product of that tenant, and
\* a run that returned stored no item for a SKU of another tenant's catalog.
C30_NoCrossTenantRecords ==
    \A r \in Runs :
        /\ r \in DOMAIN db_interactions =>
               db_interactions[r].tenant_id = run[r].tenant_id
        /\ r \in DOMAIN db_orders =>
               /\ db_orders[r].tenant_id = run[r].tenant_id
               /\ db_orders[r].interaction_id = r
        /\ r \in DOMAIN db_items =>
               \A i \in 1..Len(db_items[r]) :
                   /\ db_items[r][i].order_id = r
                   /\ products[db_items[r][i].product_id].tenant_id = run[r].tenant_id
                   /\ db_items[r][i].product_id
                          \notin ForeignSkus(run[r].extracted_items, run[r].tenant_id)

C30_Witness ==
    \E r \in Runs :
        /\ run[r].pc = "returned"
        /\ run[r].tenant_id = "t2"
        /\ "A" \in ForeignSkus(run[r].extracted_items, "t2")
        /\ db_interactions[r].tenant_id = "t2"
        /\ db_orders[r].tenant_id = "t2"
        /\ Len(db_items[r]) = 1
        /\ db_items[r][1].product_id = "X"

\* C31: once a call whose Interaction had been flushed is over, the Interaction
\* of that call is stored, whether the call returned or raised.
C31_OneInteractionPerCall ==
    \A r \in Runs : (Finished(r) /\ run[r].flushed) =>
        /\ r \in DOMAIN db_interactions
        /\ db_interactions[r].id = r

\* C32: once a call is over, its analysis log is stored with the transcript,
\* the extracted items and the safety verdict if the extraction call returned,
\* also when a later step failed; no log is stored if extraction did not return.
C32_OneLogPerExtraction ==
    \A r \in Runs : Finished(r) =>
        IF ~IsNone(run[r].analysis_log)
        THEN /\ r \in DOMAIN db_logs
             /\ db_logs[r].interaction_id = r
             /\ db_logs[r].transcript_text = run[r].transcript
             /\ db_logs[r].extracted_items = run[r].extracted_items
             /\ db_logs[r].safety_verdict = run[r].safety_verdict
        ELSE r \notin DOMAIN db_logs

\* C33: with runs and catalog price changes interleaved in any way, every item
\* of a committed order carries the price the run's one catalog lookup saw for
\* its SKU, so items of the same SKU carry the same price, and total_amount is
\* the sum over the items at those prices.
C33_PricesFromOneLookup ==
    \A r \in PriceRuns : run[r].pc = "returned" =>
        /\ \A i \in 1..Len(db_items[r]) :
              db_items[r][i].unit_price =
                  Some(Get(run[r].product_map[db_items[r][i].product_id]).price)
        /\ \A i, j \in 1..Len(db_items[r]) :
              db_items[r][i].product_id = db_items[r][j].product_id =>
                  db_items[r][i].unit_price = db_items[r][j].unit_price
        /\ db_orders[r].total_amount = SumLineTotals(db_items[r])

C33_Witness ==
    /\ \A r \in PriceRuns : run[r].pc = "returned"
    /\ Len(db_items[1]) = 2
    /\ db_items[1][1].product_id = db_items[2][1].product_id
    /\ db_items[1][1].unit_price # db_items[2][1].unit_price
    /\ products["A"].price \notin {Get(db_items[1][1].unit_price), Get(db_items[2][1].unit_price)}

\* C34: the summary a run returns names the Interaction and the Order it
\* stored, gives the stored Order's status, and counts the Anomaly rows stored
\* for that order.
C34_SummaryMatchesStored ==
    \A r \in Runs : run[r].pc = "returned" =>
        LET summary == Get(run[r].result)
        IN /\ summary.interaction_id \in DOMAIN db_interactions
           /\ db_interactions[summary.interaction_id] = Get(run[r].interaction)
           /\ summary.order_id \in DOMAIN db_orders
           /\ db_orders[summary.order_id].interaction_id = summary.interaction_id
           /\ summary.status = db_orders[summary.order_id].status
           /\ summary.anomalies_detected = Cardinality(AnomaliesOf(summary.order_id))

C34_Witness ==
    \E r \in Runs :
        /\ run[r].pc = "returned"
        /\ Get(run[r].result).status = FLAGGED
        /\ Get(run[r].result).anomalies_detected = 2
        /\ Len(db_items[r]) = 1

\* C35: when every awaited call eventually returns or raises, a run that was
\* started eventually returns its summary or raises to its caller.
C35_RunTerminates ==
    \A r \in Runs : (run[r].pc # "idle") ~> Finished(r)

C35_Witness ==
    \E r \in Runs :
        /\ run[r].pc = "returned"
        /\ run[r].n_transcribe = 1
        /\ run[r].n_safety = 1
        /\ run[r].n_extract = 1

\* C36: every stored Order references a stored Interaction whose status is
\* PROCESSED and whose tenant_id and customer_id are the order's.
C36_OrderHasProcessedInteraction ==
    \A oid \in DOMAIN db_orders :
        LET iid == db_orders[oid].interaction_id
        IN /\ iid \in DOMAIN db_interactions
           /\ db_interactions[iid].status = PROCESSED
           /\ db_interactions[iid].tenant_id = db_orders[oid].tenant_id
           /\ db_interactions[iid].customer_id = db_orders[oid].customer_id

C36_Witness ==
    \E oid \in DOMAIN db_orders :
        /\ db_orders[oid].tenant_id = "t2"
        /\ db_orders[oid].status = FLAGGED
        /\ db_interactions[db_orders[oid].interaction_id].status = PROCESSED

\* C37: a run whose safety provider call was made and raised ends with that
\* provider error, never with ContentSafetyError, without calling extraction
\* and without a stored Order, in log mode and in strict mode alike.
SafetyCallRaised(r) == run[r].n_safety = 1 /\ IsNone(run[r].safety_verdict)

C37_SafetyProviderFailureFailsRun ==
    \A r \in Runs : SafetyCallRaised(r) =>
        /\ SafetyEnabled(settings)
        /\ run[r].pc \in {"except", "mark_failed", "raised"}
        /\ run[r].exc = "HTTPError"
        /\ run[r].n_extract = 0
        /\ r \notin DOMAIN db_orders
        /\ run[r].pc = "raised" => Get(run[r].response).status = 500

C37_Witness ==
    \E r \in Runs :
        /\ settings.SAFETY_MODE = "log"
        /\ SafetyCallRaised(r)
        /\ run[r].pc = "raised"
        /\ run[r].exc = "HTTPError"

\* C38: in strict mode a run ends with ContentSafetyError only on the decision
\* block; with the decision allow or flag it goes on to extraction, and the
\* verdict is in the analysis log it builds and stores.
PassedStrict(r) ==
    /\ settings.SAFETY_MODE = "strict"
    /\ ~IsNone(run[r].safety_verdict)
    /\ Get(run[r].safety_verdict).decision # "block"

C38_StrictAbortsOnlyOnBlock ==
    \A r \in Runs :
        /\ PassedStrict(r) =>
              /\ run[r].exc # "ContentSafetyError"
              /\ run[r].pc # "safety"
              /\ run[r].pc # "extract" => run[r].n_extract = 1
              /\ ~IsNone(run[r].analysis_log) =>
                     Get(run[r].analysis_log).safety_verdict = run[r].safety_verdict
              /\ run[r].pc = "returned" =>
                     db_logs[r].safety_verdict = run[r].safety_verdict
        /\ (settings.SAFETY_MODE = "strict" /\ run[r].exc = "ContentSafetyError") =>
              /\ ~IsNone(run[r].safety_verdict)
              /\ Get(run[r].safety_verdict).decision = "block"

C38_Witness ==
    \E r \in Runs :
        /\ PassedStrict(r)
        /\ Get(run[r].safety_verdict).decision = "flag"
        /\ run[r].pc = "returned"
        /\ db_logs[r].safety_verdict = run[r].safety_verdict

\* A request made with another tenant's id, or a resolve request naming an
\* anomaly that is not one of the order's.
WrongTenant(sess, orders) ==
    /\ sess.op \in {"confirm", "resolve"}
    /\ sess.order_id \in DOMAIN orders
    /\ orders[sess.order_id].tenant_id # sess.tenant_id

WrongAnomaly(sess, anomalies) ==
    /\ sess.op = "resolve"
    /\ \/ sess.anomaly_id \notin DOMAIN anomalies
       \/ anomalies[sess.anomaly_id].order_id # sess.order_id

\* C39: a confirm or resolve request made with a tenant id that is not the
\* order's, and a resolve request whose anomaly id is not one of the order's
\* anomalies, goes no further than its select, ends with 404, and its steps
\* change no stored order and no stored anomaly.
C39_ReviewerActionsTenantScoped ==
    [][\A t \in Sessions :
         (WrongTenant(rev'[t], db_orders') \/ WrongAnomaly(rev'[t], db_anomalies')) =>
             /\ rev'[t].pc \in {"select_anomaly", "done"}
             /\ rev'[t].pc = "select_anomaly" => ~WrongTenant(rev'[t], db_orders')
             /\ rev'[t].pc = "done" => rev'[t].response = "404"
             /\ rev'[t] # rev[t] => /\ db_orders' = db_orders
                                    /\ db_anomalies' = db_anomalies]_vars

C39_Witness ==
    \E t \in Sessions :
        /\ WrongTenant(rev[t], db_orders)
        /\ rev[t].op = "confirm"
        /\ rev[t].pc = "done"
        /\ rev[t].response = "404"
        /\ db_orders[rev[t].order_id].status = FLAGGED

====
